---- MODULE Spec2Model ----
(***************************************************************************)
(* Model of the energy-dashboard backend: the synthetic load-curve         *)
(* generator and live-read fallback of tapo_pull.py, and the CSV endpoint  *)
(* of server.py.                                                           *)
(*                                                                         *)
(* Arithmetic.  The code computes with binary doubles; the model computes  *)
(* the same products as exact fractions num/den of a milli-unit (0.001),   *)
(* so that round(x, 3) is a rounding to an integer.  The two agree except  *)
(* at an exact decimal tie (x.5 milli-units), where the double's           *)
(* representation error decides the direction: there the model rounds as   *)
(* the variable tie says, and tie ranges over TieModes.                    *)
(***************************************************************************)
EXTENDS Integers, Sequences, FiniteSets, TLC

VARIABLES
    rng,            \* state of the shared random source (module random)
    tie,            \* how the platform's doubles resolve a decimal tie in round()
    call,           \* the call being observed: its name and arguments
    ret,            \* what that call returned
    now,            \* the wall clock: the current calendar day
    USE_MOCK_DATA,  \* tapo_pull.py: the module flag read from the environment
    pc,             \* where fetch_device_data stands
    fs              \* server.py: the tree under all-data/

vars == <<rng, tie, call, ret, now, USE_MOCK_DATA, pc, fs>>

-----------------------------------------------------------------------------
(* Bounds of the model *)

\* random() returns k / (2 * DrawHalf), k in 0 .. 2 * DrawHalf - 1
DrawHalf == 2

\* dates are day numbers 0 .. MaxDay; day 0 is a Monday
MaxDay == 6

\* explicit values of the days argument are -2 .. MaxDays
MaxDays == 2

\* a profile given to the hourly loop has 0 .. MaxWindows peak windows
MaxWindows == 2

DrawDen == 2 * DrawHalf

Draws == 0 .. (DrawDen - 1)

Dates == 0 .. MaxDay

-----------------------------------------------------------------------------
(* The random source *)

\* The source is an additive congruential generator: random() returns
\* x / DrawDen and moves x by step: a constant source (step 0) or one that
\* sweeps [0, 1) (step 1).  step = 0, x = DrawHalf is the source fixed to
\* the midpoint of every range.
Steps == {0, 1}

RngStates == [x : Draws, step : Steps]

random(r) == [value |-> r.x, rng |-> [r EXCEPT !.x = (r.x + r.step) % DrawDen]]

Midpoint == [x |-> DrawHalf, step |-> 0]

\* round() at a decimal tie with floor q goes up iff q % 2 is in tie:
\* always down, always up, half to even, half to odd
TieModes == SUBSET {0, 1}

-----------------------------------------------------------------------------
(* Fractions of a milli-unit *)

Mul(c, n, d) == [num |-> c.num * n, den |-> c.den * d]

\* round(x, 3): the nearest multiple of 0.001
Round3(c, t) ==
    LET q  == c.num \div c.den
        r2 == 2 * (c.num % c.den)
    IN  IF r2 > c.den THEN q + 1
        ELSE IF r2 < c.den THEN q
        ELSE IF (q % 2) \in t THEN q + 1 ELSE q

-----------------------------------------------------------------------------
(* tapo_pull.py: the profiles *)

DEVICE_PATTERNS ==
    [device1 |-> [base_load |-> 20, peak_hours |-> << <<18, 23>> >>,
                  peak_multiplier |-> <<3, 1>>, weekend_multiplier |-> <<12, 10>>],
     device2 |-> [base_load |-> 15, peak_hours |-> << <<14, 22>> >>,
                  peak_multiplier |-> <<4, 1>>, weekend_multiplier |-> <<15, 10>>],
     device3 |-> [base_load |-> 50, peak_hours |-> << <<7, 9>>, <<18, 23>> >>,
                  peak_multiplier |-> <<5, 2>>, weekend_multiplier |-> <<13, 10>>]]

\* slip: an unknown identifier gets the first profile of the table
PatternFor_FirstProfile(device_id) ==
    IF device_id \in DOMAIN DEVICE_PATTERNS
    THEN DEVICE_PATTERNS[device_id]
    ELSE DEVICE_PATTERNS["device1"]

\* DEVICE_PATTERNS.get(device_id, {...})
PatternFor(device_id) ==
    IF device_id \in DOMAIN DEVICE_PATTERNS
    THEN DEVICE_PATTERNS[device_id]
    ELSE [base_load |-> 20, peak_hours |-> << <<9, 21>> >>,
          peak_multiplier |-> <<2, 1>>, weekend_multiplier |-> <<11, 10>>]

\* date.weekday(): Monday is 0
weekday(date) == date % 7

\* slip: "> 5", which leaves Saturday out
IsWeekend_SundayOnly(date) == weekday(date) > 5

IsWeekend(date) == weekday(date) >= 5

-----------------------------------------------------------------------------
(* tapo_pull.py: generate_mock_hourly_data *)

\* pattern["base_load"] * (0.8 + random.random() * 0.4)
BaseLoad(pattern, r) ==
    LET d == random(r)
    IN  [c   |-> [num |-> pattern.base_load * (4 * DrawHalf + d.value),
                  den |-> 5 * DrawHalf],
         rng |-> d.rng]

\* slip: "start <= hour <= end", which takes the end hour in
PeakStep_ClosedEnd(pattern, win, hour, s) ==
    IF win[1] <= hour /\ hour <= win[2]
    THEN LET d  == random(s.rng)
             c1 == Mul(s.c, pattern.peak_multiplier[1], pattern.peak_multiplier[2])
         IN  [c   |-> Mul(c1, 7 * DrawHalf + 3 * d.value, 10 * DrawHalf),
              rng |-> d.rng]
    ELSE s

\* slip: "start < hour < end", which leaves the start hour out
PeakStep_OpenStart(pattern, win, hour, s) ==
    IF win[1] < hour /\ hour < win[2]
    THEN LET d  == random(s.rng)
             c1 == Mul(s.c, pattern.peak_multiplier[1], pattern.peak_multiplier[2])
         IN  [c   |-> Mul(c1, 7 * DrawHalf + 3 * d.value, 10 * DrawHalf),
              rng |-> d.rng]
    ELSE s

\* one pass of "if start <= hour < end" for one window
PeakStep(pattern, win, hour, s) ==
    IF win[1] <= hour /\ hour < win[2]
    THEN LET d  == random(s.rng)
             c1 == Mul(s.c, pattern.peak_multiplier[1], pattern.peak_multiplier[2])
         IN  [c   |-> Mul(c1, 7 * DrawHalf + 3 * d.value, 10 * DrawHalf),
              rng |-> d.rng]
    ELSE s

\* for start, end in pattern["peak_hours"]
RECURSIVE PeakLoop(_, _, _, _)
PeakLoop(pattern, windows, hour, s) ==
    IF windows = <<>> THEN s
    ELSE PeakLoop(pattern, Tail(windows), hour,
                  PeakStep(pattern, Head(windows), hour, s))

\* if is_weekend: consumption *= pattern["weekend_multiplier"]
WeekendStep(pattern, is_weekend, c) ==
    IF is_weekend
    THEN Mul(c, pattern.weekend_multiplier[1], pattern.weekend_multiplier[2])
    ELSE c

\* the unrounded consumption of one hour, and the source after it
Consumption(pattern, is_weekend, hour, r) ==
    LET s == PeakLoop(pattern, pattern.peak_hours, hour, BaseLoad(pattern, r))
    IN  [c |-> WeekendStep(pattern, is_weekend, s.c), rng |-> s.rng]

\* for hour in range(24)
RECURSIVE HourLoop(_, _, _, _, _, _)
HourLoop(pattern, is_weekend, hour, acc, r, t) ==
    IF hour >= 24 THEN [data |-> acc, rng |-> r]
    ELSE LET s == Consumption(pattern, is_weekend, hour, r)
         IN  HourLoop(pattern, is_weekend, hour + 1,
                      Append(acc, Round3(s.c, t)), s.rng, t)

\* slip: range(1, 24)
HourlyOf_FromOne(pattern, date, r, t) ==
    HourLoop(pattern, IsWeekend(date), 1, <<>>, r, t)

HourlyOf(pattern, date, r, t) ==
    HourLoop(pattern, IsWeekend(date), 0, <<>>, r, t)

generate_mock_hourly_data(device_id, date, r, t) ==
    HourlyOf(PatternFor(device_id), date, r, t)

-----------------------------------------------------------------------------
(* tapo_pull.py: generate_mock_daily_data *)

RECURSIVE Sum(_)
Sum(s) == IF s = <<>> THEN 0 ELSE Head(s) + Sum(Tail(s))

\* slip: the date is advanced before it is used
DayStep_NextDay(device_id, current_date, r, t) ==
    LET h == generate_mock_hourly_data(device_id, current_date + 1, r, t)
        d == random(h.rng)
    IN  [value |-> Round3([num |-> Sum(h.data) * (9 * DrawHalf + d.value),
                           den |-> 10 * DrawHalf], t),
         rng   |-> d.rng]

\* one iteration of "for _ in range(days)"
DayStep(device_id, current_date, r, t) ==
    LET h == generate_mock_hourly_data(device_id, current_date, r, t)
        d == random(h.rng)
    IN  [value |-> Round3([num |-> Sum(h.data) * (9 * DrawHalf + d.value),
                           den |-> 10 * DrawHalf], t),
         rng   |-> d.rng]

RECURSIVE DayLoop(_, _, _, _, _, _)
DayLoop(device_id, current_date, left, acc, r, t) ==
    IF left <= 0 THEN [data |-> acc, rng |-> r]
    ELSE LET s == DayStep(device_id, current_date, r, t)
         IN  DayLoop(device_id, current_date + 1, left - 1,
                     Append(acc, s.value), s.rng, t)

\* slip: range(days + 1)
generate_mock_daily_data_OneMore(device_id, start_date, days, r, t) ==
    DayLoop(device_id, start_date, days + 1, <<>>, r, t)

generate_mock_daily_data(device_id, start_date, days, r, t) ==
    DayLoop(device_id, start_date, days, <<>>, r, t)

\* the default of the days parameter
DefaultDays == 30

-----------------------------------------------------------------------------
(* The generators as operations *)

DeviceIds == {"device1", "device2", "device3", "device4", "kettle"}

Idle == [op |-> "none"]

\* what fs holds while tapo_pull.py is observed
NoTree == <<>>

Init ==
    /\ rng \in RngStates
    /\ tie \in TieModes
    /\ call = Idle
    /\ ret = <<>>
    /\ now = 0
    /\ USE_MOCK_DATA = FALSE
    /\ pc = "idle"
    /\ fs = NoTree

CallHourly ==
    \E device_id \in DeviceIds, date \in Dates :
        LET out == generate_mock_hourly_data(device_id, date, rng, tie)
        IN  /\ call = Idle
            /\ call' = [op |-> "hourly", device_id |-> device_id,
                        date |-> date, rng |-> rng]
            /\ ret' = out.data
            /\ rng' = out.rng
            /\ UNCHANGED <<tie, now, USE_MOCK_DATA, pc, fs>>

\* generate_mock_daily_data(device_id, start_date, days)
CallDaily ==
    \E device_id \in DeviceIds, start_date \in Dates, days \in -2 .. MaxDays :
        LET out == generate_mock_daily_data(device_id, start_date, days, rng, tie)
        IN  /\ call = Idle
            /\ call' = [op |-> "daily", device_id |-> device_id, given |-> TRUE,
                        start_date |-> start_date, days |-> days, rng |-> rng]
            /\ ret' = out.data
            /\ rng' = out.rng
            /\ UNCHANGED <<tie, now, USE_MOCK_DATA, pc, fs>>

\* generate_mock_daily_data(device_id, start_date)
CallDailyDefault ==
    \E device_id \in DeviceIds, start_date \in {0, MaxDay} :
        LET out == generate_mock_daily_data(device_id, start_date, DefaultDays,
                                            rng, tie)
        IN  /\ call = Idle
            /\ call' = [op |-> "daily", device_id |-> device_id, given |-> FALSE,
                        start_date |-> start_date, days |-> DefaultDays,
                        rng |-> rng]
            /\ ret' = out.data
            /\ rng' = out.rng
            /\ UNCHANGED <<tie, now, USE_MOCK_DATA, pc, fs>>

\* the caller takes the result; the random source keeps its state
Return ==
    /\ call # Idle
    /\ pc \in {"idle", "done"}
    /\ call' = Idle
    /\ ret' = <<>>
    /\ pc' = "idle"
    /\ UNCHANGED <<rng, tie, now, USE_MOCK_DATA, fs>>

Next == CallHourly \/ CallDaily \/ CallDailyDefault \/ Return

Spec == Init /\ [][Next]_vars

-----------------------------------------------------------------------------
(* tapo_pull.py: get_mock_device_data and fetch_device_data *)

MOCK_DEVICE_NAMES ==
    [device1 |-> "Sonos Lamp", device2 |-> "Nintendo Switch",
     device3 |-> "Living Room TV"]

\* MOCK_DEVICE_NAMES.get(device_id, f"Device {device_id}")
MockName(device_id) ==
    IF device_id \in DOMAIN MOCK_DEVICE_NAMES
    THEN MOCK_DEVICE_NAMES[device_id]
    ELSE <<"Device ", device_id>>

\* The dict display is evaluated top to bottom: datetime.now() is read four
\* times, reads[1] for the hourly series, reads[2] for its time stamp,
\* reads[3] for the start of the daily series, reads[4] for its time stamp.
\* A time stamp is modelled by its calendar day.
get_mock_device_data(device_id, reads, r, t) ==
    LET h == generate_mock_hourly_data(device_id, reads[1], r, t)
        d == generate_mock_daily_data(device_id, reads[3] - 29, DefaultDays,
                                      h.rng, t)
    IN  [reading |->
             [device_info |-> [device_id |-> device_id,
                               name |-> MockName(device_id),
                               type |-> "SMART.TAPOPLUG", model |-> "P110"],
              hourly |-> [data |-> h.data, time_stamp |-> reads[2]],
              daily  |-> [data |-> d.data, time_stamp |-> reads[4]]],
         rng |-> d.rng]

\* Four successive readings of a clock that shows day `from` at the first
\* and passes midnight at most once while the dict is built.
ClockReads(from) ==
    {q \in [1 .. 4 -> {from, from + 1}] :
        /\ q[1] = from
        /\ \A i \in 1 .. 3 : q[i] <= q[i + 1]}

\* the awaits of the live read, in order
LiveSteps == <<"p110", "get_device_info", "get_energy_hourly", "get_energy_daily">>

StepAfter(step) ==
    LET i == CHOOSE j \in 1 .. Len(LiveSteps) : LiveSteps[j] = step
    IN  IF i = Len(LiveSteps) THEN "return" ELSE LiveSteps[i + 1]

\* what the device answers; its content is the collaborator's
LiveReading(device_id) ==
    [device_info |-> [device_id |-> device_id, name |-> "live",
                      type |-> "live", model |-> "live"],
     hourly |-> [data |-> <<"live">>, time_stamp |-> "live"],
     daily  |-> [data |-> <<"live">>, time_stamp |-> "live"]]

\* slip: only the timeout is caught
Caught_TimeoutOnly(error) == error = "TimeoutError"

\* except (asyncio.TimeoutError, Exception)
Caught(error) == error \in {"TimeoutError", "Exception"}

ReadingDeviceIds == {"device3", "kettle"}

\* get_mock_device_data(device_id), called directly
CallMock ==
    \E device_id \in ReadingDeviceIds, reads \in ClockReads(now) :
        LET out == get_mock_device_data(device_id, reads, rng, tie)
        IN  /\ call = Idle
            /\ call' = [op |-> "mock", device_id |-> device_id,
                        mock_args |-> <<reads[1], reads[3] - 29>>]
            /\ ret' = out.reading
            /\ rng' = out.rng
            /\ now' = reads[4]
            /\ pc' = "done"
            /\ UNCHANGED <<tie, USE_MOCK_DATA, fs>>

\* fetch_device_data with USE_MOCK_DATA set
FetchMockMode ==
    \E device_id \in ReadingDeviceIds, reads \in ClockReads(now) :
        LET out == get_mock_device_data(device_id, reads, rng, tie)
        IN  /\ call = Idle
            /\ USE_MOCK_DATA
            /\ call' = [op |-> "fetch", device_id |-> device_id,
                        failed_at |-> "none", error |-> "none",
                        mock_args |-> <<reads[1], reads[3] - 29>>]
            /\ ret' = out.reading
            /\ rng' = out.rng
            /\ now' = reads[4]
            /\ pc' = "done"
            /\ UNCHANGED <<tie, USE_MOCK_DATA, fs>>

\* fetch_device_data with USE_MOCK_DATA clear: into "async with timeout(4)"
FetchStart ==
    \E device_id \in ReadingDeviceIds :
        /\ call = Idle
        /\ ~USE_MOCK_DATA
        /\ call' = [op |-> "fetch", device_id |-> device_id,
                    failed_at |-> "none", error |-> "none",
                    mock_args |-> <<>>]
        /\ pc' = LiveSteps[1]
        /\ UNCHANGED <<rng, tie, ret, now, USE_MOCK_DATA, fs>>

\* the awaited call answers; after the last one the live reading is returned
AwaitReturns ==
    /\ call # Idle
    /\ call.op = "fetch"
    /\ pc \notin {"idle", "done"}
    /\ IF StepAfter(pc) = "return"
       THEN /\ ret' = LiveReading(call.device_id)
            /\ pc' = "done"
       ELSE /\ pc' = StepAfter(pc)
            /\ UNCHANGED ret
    /\ UNCHANGED <<rng, tie, call, now, USE_MOCK_DATA, fs>>

\* the except clause: the mock reading when the error is caught, else the
\* error reaches the caller
Except(error) ==
    IF Caught(error)
    THEN \E reads \in ClockReads(now) :
            LET out == get_mock_device_data(call.device_id, reads, rng, tie)
            IN  /\ call' = [call EXCEPT !.failed_at = pc, !.error = error,
                                        !.hourly_date = reads[1],
                                        !.daily_start = reads[3] - 29]
                /\ ret' = out.reading
                /\ rng' = out.rng
                /\ now' = reads[4]
    ELSE /\ call' = [call EXCEPT !.failed_at = pc, !.error = error]
         /\ ret' = [raised |-> error]
         /\ UNCHANGED <<rng, now>>

\* the awaited call raises
AwaitRaises ==
    /\ call # Idle
    /\ call.op = "fetch"
    /\ pc \notin {"idle", "done"}
    /\ Except("Exception")
    /\ pc' = "done"
    /\ UNCHANGED <<tie, USE_MOCK_DATA, fs>>

\* the 4 seconds of "async with timeout(4)" pass during an await
TimeoutExpires ==
    /\ call # Idle
    /\ call.op = "fetch"
    /\ pc \notin {"idle", "done"}
    /\ Except("TimeoutError")
    /\ pc' = "done"
    /\ UNCHANGED <<tie, USE_MOCK_DATA, fs>>

\* midnight passes between two calls
Tick ==
    /\ call = Idle
    /\ now < MaxDay
    /\ now' = now + 1
    /\ UNCHANGED <<rng, tie, call, ret, USE_MOCK_DATA, pc, fs>>

\* a source fixed to the midpoint or sweeping from it; ties down or up
InitReading ==
    /\ rng \in {r \in RngStates : r.x = DrawHalf}
    /\ tie \in {{}, {0, 1}}
    /\ call = Idle
    /\ ret = <<>>
    /\ now = MaxDay - 2
    /\ USE_MOCK_DATA \in BOOLEAN
    /\ pc = "idle"
    /\ fs = NoTree

NextReading ==
    \/ CallMock
    \/ FetchMockMode
    \/ FetchStart
    \/ AwaitReturns
    \/ AwaitRaises
    \/ TimeoutExpires
    \/ Tick

SpecReading == InitReading /\ [][NextReading]_vars

-----------------------------------------------------------------------------
(* server.py: get_device_data *)

\* The tree under all-data/: participant -> the entries os.listdir gives for
\* its directory, in the order it gives them.  An entry is a name (its
\* characters), whether it is a directory, and its date folders; a date
\* folder is its name and its 'Day-Table 1.csv': whether the file exists,
\* whether pd.read_csv can read it, and its lines (the first is the header).
\* A line is <<timestamp, energy>>.

\* device_folder.split('_')[0]
RECURSIVE SplitFirst(_)
SplitFirst(name) ==
    IF name = <<>> \/ Head(name) = "_" THEN <<>>
    ELSE <<Head(name)>> \o SplitFirst(Tail(name))

\* pd.read_csv(csv_path, skiprows=1, names=[...], usecols=['timestamp', 'energy'])
ReadCsv(csv) ==
    IF ~csv.readable THEN [raised |-> TRUE]
    ELSE [raised    |-> FALSE,
          timestamp |-> [i \in 1 .. (Len(csv.lines) - 1) |-> csv.lines[i + 1][1]],
          energy    |-> [i \in 1 .. (Len(csv.lines) - 1) |-> csv.lines[i + 1][2]]]

\* the body of "for date_folder in os.listdir(device_path)"
DateStep(hourly, date_folder) ==
    IF ~date_folder.csv.exists THEN hourly
    ELSE LET df == ReadCsv(date_folder.csv)
         IN  IF df.raised THEN hourly
             ELSE [data       |-> hourly.data \o df.energy,
                   timestamps |-> hourly.timestamps \o df.timestamp]

RECURSIVE DateLoop(_, _)
DateLoop(hourly, date_folders) ==
    IF date_folders = <<>> THEN hourly
    ELSE DateLoop(DateStep(hourly, Head(date_folders)), Tail(date_folders))

\* the body of "for device_folder in os.listdir(participant_dir)"
DeviceStep(device_data, entry) ==
    IF ~entry.is_dir THEN device_data
    ELSE LET device_name == SplitFirst(entry.name)
             fresh == [name   |-> device_name,
                       hourly |-> DateLoop([data |-> <<>>, timestamps |-> <<>>],
                                           entry.dates)]
         IN  [n \in DOMAIN device_data \cup {device_name} |->
                 IF n = device_name THEN fresh ELSE device_data[n]]

RECURSIVE DeviceLoop(_, _)
DeviceLoop(device_data, entries) ==
    IF entries = <<>> THEN device_data
    ELSE DeviceLoop(DeviceStep(device_data, Head(entries)), Tail(entries))

get_device_data(tree, participant_id) ==
    IF participant_id \notin DOMAIN tree
    THEN [status |-> 404, body |-> [error |-> "Participant not found"]]
    ELSE [status |-> 200, body |-> DeviceLoop(<<>>, tree[participant_id])]

\* the lines of the CSV of a date folder: a header and n rows, each row its own
CsvLines(folder, date, n) ==
    <<<<"timestamp", "energy">>>>
    \o [i \in 1 .. n |-> <<<<date, i>>, <<folder, date, i>>>>]

CsvStates(folder, date) ==
    {[exists |-> FALSE, readable |-> FALSE, lines |-> <<>>],
     [exists |-> TRUE, readable |-> FALSE, lines |-> <<>>]}
    \cup {[exists |-> TRUE, readable |-> TRUE, lines |-> CsvLines(folder, date, n)] :
          n \in 0 .. 2}

FolderNames ==
    {<<"T", "V", "_", "1">>, <<"T", "V", "_", "2">>, <<"L", "_", "1">>}

\* a device folder with its two date folders
DeviceFolders(name) ==
    {[name |-> name, is_dir |-> TRUE,
      dates |-> <<[name |-> "d1", csv |-> c1], [name |-> "d2", csv |-> c2]>>] :
     c1 \in CsvStates(name, "d1"), c2 \in CsvStates(name, "d2")}

\* a plain file beside the device folders
PlainFile == [name |-> <<"n", "o", "t", "e", "s">>, is_dir |-> FALSE, dates |-> <<>>]

Listings ==
    {<<e>> : e \in UNION {DeviceFolders(n) : n \in FolderNames}}
    \cup {<<e1, e2>> : e1 \in DeviceFolders(<<"T", "V", "_", "1">>) \cup {PlainFile},
                       e2 \in DeviceFolders(<<"T", "V", "_", "2">>)
                              \cup DeviceFolders(<<"L", "_", "1">>)}

InitServer ==
    /\ rng = Midpoint
    /\ tie = {}
    /\ call = Idle
    /\ ret = <<>>
    /\ now = 0
    /\ USE_MOCK_DATA = FALSE
    /\ pc = "idle"
    /\ fs \in {[P0 |-> l] : l \in Listings}

\* GET /api/device-data/<participant_id>
HandleRequest ==
    \E participant_id \in {"P0", "P9"} :
        /\ call = Idle
        /\ call' = [op |-> "request", participant_id |-> participant_id]
        /\ ret' = get_device_data(fs, participant_id)
        /\ UNCHANGED <<rng, tie, now, USE_MOCK_DATA, pc, fs>>

NextServer == HandleRequest \/ Return

SpecServer == InitServer /\ [][NextServer]_vars

-----------------------------------------------------------------------------
(* Properties of the generators *)

SatOrSun(date) == weekday(date) \in {5, 6}

Abs(n) == IF n < 0 THEN -n ELSE n

\* C1: whatever the device identifier, the date and the draws,
\* generate_mock_hourly_data returns exactly 24 values, none negative.
C1_HourlyShape ==
    call.op = "hourly" =>
        /\ Len(ret) = 24
        /\ \A i \in 1 .. Len(ret) : ret[i] >= 0

C1_Witness ==
    /\ call.op = "hourly"
    /\ call.device_id = "kettle"
    /\ call.rng.step = 1
    /\ weekday(call.date) = 6
    /\ Len(ret) = 24

\* the weekday series the weekend series of the observed call is compared to
WeekdaySeries(date) ==
    generate_mock_hourly_data(call.device_id, date, Midpoint, tie).data

\* C3 as stated: with midpoint draws the value of every hour of a Saturday
\* or Sunday is exactly weekend_multiplier times the value of the same hour
\* of a weekday, and is higher.
C3_ExactlyScaled ==
    (call.op = "hourly" /\ call.rng = Midpoint /\ SatOrSun(call.date)) =>
        LET wm == PatternFor(call.device_id).weekend_multiplier
        IN  \A date \in Dates : ~SatOrSun(date) =>
                \A h \in 1 .. 24 :
                    /\ ret[h] * wm[2] = wm[1] * WeekdaySeries(date)[h]
                    /\ ret[h] > WeekdaySeries(date)[h]

\* C3 amended: with midpoint draws the value of every hour of a Saturday or
\* Sunday is weekend_multiplier times the value of the same hour of a
\* weekday, rounded to 3 decimals (within 0.0005 of the product), and is
\* higher.
C3_ScaledThenRounded ==
    (call.op = "hourly" /\ call.rng = Midpoint /\ SatOrSun(call.date)) =>
        LET wm == PatternFor(call.device_id).weekend_multiplier
        IN  \A date \in Dates : ~SatOrSun(date) =>
                \A h \in 1 .. 24 :
                    /\ 2 * Abs(ret[h] * wm[2] - wm[1] * WeekdaySeries(date)[h])
                           <= wm[2]
                    /\ ret[h] > WeekdaySeries(date)[h]

\* device2 off peak on a Saturday: 0.015 * 1.5 = 0.0225 is returned as
\* 0.022 or 0.023
C3_Witness ==
    /\ call.op = "hourly"
    /\ call.rng = Midpoint
    /\ call.device_id = "device2"
    /\ weekday(call.date) = 5
    /\ ret[1] \in {22, 23}
    /\ WeekdaySeries(0)[1] = 15

\* C4: generate_mock_daily_data returns exactly days values for days >= 0,
\* 30 when days is not given, and the empty list for days <= 0.
C4_DailyLength ==
    call.op = "daily" =>
        Len(ret) = (IF ~call.given THEN 30
                    ELSE IF call.days >= 0 THEN call.days ELSE 0)

C4_Witness ==
    /\ call.op = "daily"
    /\ call.given
    /\ call.days < 0
    /\ ret = <<>>

InPeakWindow(device_id, hour) ==
    \E i \in 1 .. Len(PatternFor(device_id).peak_hours) :
        /\ PatternFor(device_id).peak_hours[i][1] <= hour
        /\ hour < PatternFor(device_id).peak_hours[i][2]

\* C6: with midpoint draws, every hour inside a peak window gets a value
\* strictly greater than every hour of the same day in no peak window.
C6_PeakAboveOffPeak ==
    (call.op = "hourly" /\ call.rng = Midpoint) =>
        \A h1, h2 \in 0 .. 23 :
            (InPeakWindow(call.device_id, h1) /\ ~InPeakWindow(call.device_id, h2))
                => ret[h1 + 1] > ret[h2 + 1]

C6_Witness ==
    /\ call.op = "hourly"
    /\ call.rng = Midpoint
    /\ call.device_id = "device3"
    /\ SatOrSun(call.date)
    /\ InPeakWindow("device3", 7) /\ ~InPeakWindow("device3", 9)
    /\ ret[8] > ret[10]

\* the default profile, written out
ExplicitDefault ==
    [base_load |-> 20, peak_hours |-> << <<9, 21>> >>,
     peak_multiplier |-> <<2, 1>>, weekend_multiplier |-> <<11, 10>>]

\* C7: an identifier that is no key of DEVICE_PATTERNS gets, for the same
\* date and the same draws, the 24 values of the explicit default profile.
C7_UnknownIsDefault ==
    (call.op = "hourly" /\ call.device_id \notin {"device1", "device2", "device3"})
        => /\ ret = HourlyOf(ExplicitDefault, call.date, call.rng, tie).data
           /\ Len(ret) = 24

C7_Witness ==
    /\ call.op = "hourly"
    /\ call.device_id = "device4"
    /\ call.rng.step = 1
    /\ ret = HourlyOf(ExplicitDefault, call.date, call.rng, tie).data
    /\ ret # generate_mock_hourly_data("device1", call.date, call.rng, tie).data

DayOf(i) == call.start_date + i - 1

\* C8: with midpoint draws, entry i of generate_mock_daily_data is the
\* 3-decimal rounding of the sum of the hourly series of day start_date + i
\* alone, in ascending order of days, and the weekend multiplier shows in
\* exactly the entries of Saturdays and Sundays.
C8_DailyPerDay ==
    (call.op = "daily" /\ call.rng = Midpoint) =>
        /\ \A i \in 1 .. Len(ret) :
               ret[i] = Sum(generate_mock_hourly_data(call.device_id, DayOf(i),
                                                      Midpoint, tie).data)
        /\ \A i, j \in 1 .. Len(ret) :
               /\ (SatOrSun(DayOf(i)) /\ ~SatOrSun(DayOf(j))) => ret[i] > ret[j]
               /\ (SatOrSun(DayOf(i)) <=> SatOrSun(DayOf(j))) => ret[i] = ret[j]

C8_Witness ==
    /\ call.op = "daily"
    /\ call.rng = Midpoint
    /\ call.device_id = "device3"
    /\ call.start_date = 0
    /\ Len(ret) = 30
    /\ ret[6] > ret[5]
    /\ ret[8] = ret[5]

-----------------------------------------------------------------------------
(* The hourly loop over any profile of the table *)

\* DEVICE_PATTERNS is a module-level table: the loop of
\* generate_mock_hourly_data runs over whatever entry it holds.  Besides the
\* shipped entries, entries whose windows overlap, repeat or touch.
RECURSIVE SeqsUpTo(_, _)
SeqsUpTo(S, n) ==
    IF n = 0 THEN {<<>>}
    ELSE LET shorter == SeqsUpTo(S, n - 1)
         IN  shorter \cup {Append(q, e) : q \in shorter, e \in S}

Windows == {<<7, 9>>, <<9, 21>>, <<18, 23>>}

Patterns ==
    {PatternFor(d) : d \in DeviceIds}
    \cup {[base_load |-> 20, peak_hours |-> w,
           peak_multiplier |-> <<2, 1>>, weekend_multiplier |-> <<11, 10>>] :
          w \in SeqsUpTo(Windows, MaxWindows)}

CallHourlyWith ==
    \E pattern \in Patterns, date \in Dates :
        LET out == HourlyOf(pattern, date, rng, tie)
        IN  /\ call = Idle
            /\ call' = [op |-> "pattern", pattern |-> pattern,
                        date |-> date, rng |-> rng]
            /\ ret' = out.data
            /\ rng' = out.rng
            /\ UNCHANGED <<tie, now, USE_MOCK_DATA, pc, fs>>

NextPattern == CallHourlyWith \/ Return

SpecPattern == Init /\ [][NextPattern]_vars

\* the number of windows of the profile that contain the hour
WindowsAround(pattern, hour) ==
    Cardinality({i \in 1 .. Len(pattern.peak_hours) :
                    /\ pattern.peak_hours[i][1] <= hour
                    /\ hour < pattern.peak_hours[i][2]})

\* the n-th draw after the source was in state r
DrawAt(r, n) == (r.x + n * r.step) % DrawDen

\* c times (peak_multiplier times a peak-variance draw), for draws n+1 .. n+k
RECURSIVE Compounded(_, _, _, _, _)
Compounded(pattern, r, n, k, c) ==
    IF k = 0 THEN c
    ELSE Compounded(pattern, r, n + 1, k - 1,
                    [num |-> c.num * pattern.peak_multiplier[1]
                                   * (7 * DrawHalf + 3 * DrawAt(r, n + 1)),
                     den |-> c.den * pattern.peak_multiplier[2] * 10 * DrawHalf])

\* the value of an hour that starts at draw n and lies in k windows
HourExpected(pattern, date, r, n, k) ==
    LET base == [num |-> pattern.base_load * (4 * DrawHalf + DrawAt(r, n)),
                 den |-> 5 * DrawHalf]
        peak == Compounded(pattern, r, n, k, base)
    IN  IF SatOrSun(date)
        THEN [num |-> peak.num * pattern.weekend_multiplier[1],
              den |-> peak.den * pattern.weekend_multiplier[2]]
        ELSE peak

RECURSIVE SeriesExpected(_, _, _, _, _)
SeriesExpected(pattern, date, r, hour, n) ==
    IF hour >= 24 THEN <<>>
    ELSE LET k == WindowsAround(pattern, hour)
         IN  <<Round3(HourExpected(pattern, date, r, n, k), tie)>>
             \o SeriesExpected(pattern, date, r, hour + 1, n + 1 + k)

\* C9: an hour inside k windows (start <= h < end) has its base value
\* multiplied by peak_multiplier and by a fresh draw k times; an hour in no
\* window, the end hour of a window included, zero times.
C9_OncePerWindow ==
    call.op = "pattern" =>
        ret = SeriesExpected(call.pattern, call.date, call.rng, 0, 0)

\* windows (9, 21) and (18, 23): hour 18 is in both, hour 21 in the second
\* only, hour 23 in none
C9_Witness ==
    /\ call.op = "pattern"
    /\ call.pattern.peak_hours = << <<9, 21>>, <<18, 23>> >>
    /\ call.rng = Midpoint
    /\ ~SatOrSun(call.date)
    /\ WindowsAround(call.pattern, 18) = 2
    /\ ret[19] = 80 /\ ret[22] = 40 /\ ret[24] = 20

-----------------------------------------------------------------------------
(* Properties of the readings *)

IsReading(r) == DOMAIN r = {"device_info", "hourly", "daily"}

\* C2: with mock mode off, when a step of the live read raises or the
\* timeout expires, fetch_device_data still returns a reading with the keys
\* device_info, hourly and daily, built by get_mock_device_data for the same
\* device_id, and no exception reaches the caller.
C2_FetchNeverFails ==
    (call.op = "fetch" /\ pc = "done" /\ ~USE_MOCK_DATA
        /\ call.failed_at # "none") =>
        /\ IsReading(ret)
        /\ ret.device_info = [device_id |-> call.device_id,
                              name |-> IF call.device_id = "device3"
                                       THEN "Living Room TV"
                                       ELSE <<"Device ", call.device_id>>,
                              type |-> "SMART.TAPOPLUG", model |-> "P110"]
        /\ Len(ret.hourly.data) = 24
        /\ Len(ret.daily.data) = 30
        /\ ret # LiveReading(call.device_id)

C2_Witness ==
    /\ call.op = "fetch"
    /\ pc = "done"
    /\ ~USE_MOCK_DATA
    /\ call.failed_at = "get_energy_daily"
    /\ call.error = "TimeoutError"
    /\ IsReading(ret)
    /\ ret.device_info.device_id = call.device_id

\* get_mock_device_data built the returned reading; mock_args are the dates
\* it gave to the hourly and to the daily generator
BuiltMock ==
    /\ call.op \in {"mock", "fetch"}
    /\ pc = "done"
    /\ call.mock_args # <<>>

\* C5: get_mock_device_data returns 24 hourly and 30 daily entries, and the
\* daily series ends on the calendar day of the hourly series and of the two
\* time stamps, although the clock is read separately for each.
C5_OneCurrentDay ==
    BuiltMock =>
        /\ Len(ret.hourly.data) = 24
        /\ Len(ret.daily.data) = 30
        /\ call.mock_args[2] + 29 = call.mock_args[1]
        /\ ret.hourly.time_stamp = call.mock_args[1]
        /\ ret.daily.time_stamp = call.mock_args[1]

-----------------------------------------------------------------------------
(* Properties of the CSV endpoint *)

Entries == fs[call.participant_id]

SomeCsvFails ==
    \E i \in 1 .. Len(Entries) : \E j \in 1 .. Len(Entries[i].dates) :
        /\ Entries[i].dates[j].csv.exists
        /\ ~Entries[i].dates[j].csv.readable

\* row k of a readable CSV is in the response, under the device of its folder
RowKept(entry, csv, k) ==
    LET device_name == SplitFirst(entry.name)
    IN  /\ device_name \in DOMAIN ret.body
        /\ \E m \in 1 .. Len(ret.body[device_name].hourly.data) :
               /\ ret.body[device_name].hourly.data[m] = csv.lines[k][2]
               /\ ret.body[device_name].hourly.timestamps[m] = csv.lines[k][1]

\* C10: for an existing participant, a failure while reading one CSV does
\* not fail the request: the status is 200, the rows of every readable CSV
\* are in the response, and data and timestamps of every device have the
\* same length.
C10_CsvFailureIsolated ==
    (call.op = "request" /\ call.participant_id \in DOMAIN fs /\ SomeCsvFails) =>
        /\ ret.status = 200
        /\ \A i \in 1 .. Len(Entries) : \A j \in 1 .. Len(Entries[i].dates) :
               (Entries[i].is_dir /\ Entries[i].dates[j].csv.exists
                    /\ Entries[i].dates[j].csv.readable) =>
                   \A k \in 2 .. Len(Entries[i].dates[j].csv.lines) :
                       RowKept(Entries[i], Entries[i].dates[j].csv, k)
        /\ \A n \in DOMAIN ret.body :
               Len(ret.body[n].hourly.data) = Len(ret.body[n].hourly.timestamps)

====
